---- MODULE Spec2Model ----
(***************************************************************************)
(* Model of backend/app/main.py: one /upload request, from the call of     *)
(* analyze_video to the HTTP response.                                     *)
(*                                                                         *)
(* Frame rates are floats in the program.  They are modelled in            *)
(* thousandths of a frame per second (29.97 fps is 29970), which keeps     *)
(* the fractional part that int() drops.                                   *)
(* A captured keypoint sample is represented by the frame index at which   *)
(* it was captured; a written frame by the ordinal of the frame the        *)
(* reader delivered.                                                        *)
(***************************************************************************)
EXTENDS Integers, Sequences, FiniteSets

VARIABLES
    canOpen,            \* input: cap.isOpened() after construction
    reportedFps,        \* input: cap.get(CAP_PROP_FPS), in 1/1000 fps
    pc,                 \* position in upload_video / analyze_video
    cap,                \* reader: "none", "open", "released"
    writer,             \* writer: "none", "open", "released"
    writerFps,          \* rate the writer was constructed with
    pose,               \* pose session: "none", "open", "closed"
    sessions,           \* number of pose sessions constructed
    fps,                \* local fps
    sample_interval,    \* local sample_interval
    frame_index,        \* local frame_index
    keypoints_samples,  \* local keypoints_samples (frame indices)
    frame,              \* ordinal of the frame held in `frame`, -1 if none
    detected,           \* result.pose_landmarks of the current frame
    reads,              \* history: frames the reader delivered
    det,                \* history: detection outcome per delivered frame
    usedSession,        \* history: session that processed each frame
    written,            \* history: frames handed to writer.write, in order
    result,             \* value returned by analyze_video
    response,           \* HTTP response of /upload
    exit                \* history: how analyze_video left the loop

vars == <<canOpen, reportedFps, pc, cap, writer, writerFps, pose, sessions,
          fps, sample_interval, frame_index, keypoints_samples, frame,
          detected, reads, det, usedSession, written, result, response, exit>>

\* Largest number of frames the reader delivers in the model.
MaxFrames == 7

\* Frame rates the reader may report, in 1/1000 fps.
FpsValues == {-2500, -1000, 0, 500, 1000, 1500, 2000, 2500, 2700, 3000, 29970}

NoValue == [kind |-> "none"]

FailureDetail == "Analyse des Videos fehlgeschlagen"
SuccessMessage == "Video erfolgreich analysiert"

Max(a, b) == IF a >= b THEN a ELSE b
Min(a, b) == IF a <= b THEN a ELSE b

\* Python int(x) on a float: truncation towards zero.
PyInt(m) == IF m >= 0 THEN m \div 1000 ELSE -((-m) \div 1000)

\* Python round(x) on a float: nearest integer, ties to even.
PyRound(m) ==
    LET f == m \div 1000
        r == m - 1000 * f
    IN  IF r < 500 THEN f
        ELSE IF r > 500 THEN f + 1
        ELSE IF f % 2 = 0 THEN f ELSE f + 1

\* `cap.get(cv2.CAP_PROP_FPS) or 30.0`: a falsy float is 0.0 only.
FpsOrDefault(r) == IF r = 0 THEN 30000 ELSE r

SampleInterval_round(f) == Max(PyRound(f), 1)

\* `max(int(fps), 1)`
SampleInterval(f) == Max(PyInt(f), 1)

ShouldSample_nocap(idx, si, n) == idx % si = 0

ShouldSample_anyframe(idx, si, n) == n < 3

\* `frame_index % sample_interval == 0 and len(keypoints_samples) < 3`
ShouldSample(idx, si, n) == idx % si = 0 /\ n < 3

Init ==
    /\ canOpen \in BOOLEAN
    /\ reportedFps \in FpsValues
    /\ pc = "call"
    /\ cap = "none"
    /\ writer = "none"
    /\ writerFps = 0
    /\ pose = "none"
    /\ sessions = 0
    /\ fps = 0
    /\ sample_interval = 0
    /\ frame_index = 0
    /\ keypoints_samples = <<>>
    /\ frame = -1
    /\ detected = FALSE
    /\ reads = 0
    /\ det = <<>>
    /\ usedSession = <<>>
    /\ written = <<>>
    /\ result = NoValue
    /\ response = NoValue
    /\ exit = "none"

OpenReader_unchecked ==
    /\ pc = "call"
    /\ cap' = "open"
    /\ pc' = "setup"
    /\ UNCHANGED <<canOpen, reportedFps, writer, writerFps, pose, sessions,
                   fps, sample_interval, frame_index, keypoints_samples,
                   frame, detected, reads, det, usedSession, written,
                   result, response, exit>>

\* cap = cv2.VideoCapture(...); if not cap.isOpened(): raise RuntimeError
OpenReader ==
    /\ pc = "call"
    /\ IF canOpen
         THEN cap' = "open" /\ pc' = "setup"
         ELSE cap' = cap /\ pc' = "raised"
    /\ exit' = IF canOpen THEN exit ELSE "openfail"
    /\ UNCHANGED <<canOpen, reportedFps, writer, writerFps, pose, sessions,
                   fps, sample_interval, frame_index, keypoints_samples,
                   frame, detected, reads, det, usedSession, written,
                   result, response>>

\* fps, the writer, and the locals of the loop
Setup ==
    /\ pc = "setup"
    /\ fps' = FpsOrDefault(reportedFps)
    /\ writer' = "open"
    /\ writerFps' = fps'
    /\ keypoints_samples' = <<>>
    /\ frame_index' = 0
    /\ sample_interval' = SampleInterval(fps')
    /\ pc' = "enter"
    /\ UNCHANGED <<canOpen, reportedFps, cap, pose, sessions, frame,
                   detected, reads, det, usedSession, written, result,
                   response, exit>>

\* with mp_pose.Pose(...) as pose:
EnterPose ==
    /\ pc = "enter"
    /\ sessions' = sessions + 1
    /\ pose' = "open"
    /\ pc' = "read"
    /\ UNCHANGED <<canOpen, reportedFps, cap, writer, writerFps, fps,
                   sample_interval, frame_index, keypoints_samples, frame,
                   detected, reads, det, usedSession, written, result,
                   response, exit>>

\* success, frame = cap.read(), with success true
ReadFrame ==
    /\ pc = "read"
    /\ reads < MaxFrames
    /\ frame' = reads
    /\ reads' = reads + 1
    /\ pc' = "cvt"
    /\ UNCHANGED <<canOpen, reportedFps, cap, writer, writerFps, pose,
                   sessions, fps, sample_interval, frame_index,
                   keypoints_samples, detected, det, usedSession, written,
                   result, response, exit>>

\* cap.read() fails: break, and the with block closes the session
EndOfInput ==
    /\ pc = "read"
    /\ pose' = "closed"
    /\ frame' = -1
    /\ pc' = "release"
    /\ exit' = "eof"
    /\ UNCHANGED <<canOpen, reportedFps, cap, writer, writerFps, sessions,
                   fps, sample_interval, frame_index, keypoints_samples,
                   detected, reads, det, usedSession, written, result,
                   response>>

\* frame_rgb = cv2.cvtColor(frame, cv2.COLOR_BGR2RGB)
CvtColor ==
    /\ pc = "cvt"
    /\ pc' = "process"
    /\ UNCHANGED <<canOpen, reportedFps, cap, writer, writerFps, pose,
                   sessions, fps, sample_interval, frame_index,
                   keypoints_samples, frame, detected, reads, det,
                   usedSession, written, result, response, exit>>

Process_newSession ==
    /\ pc = "process"
    /\ \E d \in BOOLEAN :
         /\ detected' = d
         /\ det' = Append(det, d)
         /\ pc' = IF d THEN "draw" ELSE "rotate"
    /\ sessions' = sessions + 1
    /\ usedSession' = Append(usedSession, sessions')
    /\ UNCHANGED <<canOpen, reportedFps, cap, writer, writerFps, pose,
                   fps, sample_interval, frame_index, keypoints_samples,
                   frame, reads, written, result, response, exit>>

\* result = pose.process(frame_rgb); if result.pose_landmarks:
Process ==
    /\ pc = "process"
    /\ \E d \in BOOLEAN :
         /\ detected' = d
         /\ det' = Append(det, d)
         /\ pc' = IF d THEN "draw" ELSE "rotate"
    /\ usedSession' = Append(usedSession, sessions)
    /\ UNCHANGED <<canOpen, reportedFps, cap, writer, writerFps, pose,
                   sessions, fps, sample_interval, frame_index,
                   keypoints_samples, frame, reads, written, result,
                   response, exit>>

\* mp_drawing.draw_landmarks(frame, ...)
Draw ==
    /\ pc = "draw"
    /\ pc' = "sample"
    /\ UNCHANGED <<canOpen, reportedFps, cap, writer, writerFps, pose,
                   sessions, fps, sample_interval, frame_index,
                   keypoints_samples, frame, detected, reads, det,
                   usedSession, written, result, response, exit>>

\* if frame_index % sample_interval == 0 and len(...) < 3: append
Sample ==
    /\ pc = "sample"
    /\ keypoints_samples' =
         IF ShouldSample(frame_index, sample_interval, Len(keypoints_samples))
           THEN Append(keypoints_samples, frame_index)
           ELSE keypoints_samples
    /\ pc' = "rotate"
    /\ UNCHANGED <<canOpen, reportedFps, cap, writer, writerFps, pose,
                   sessions, fps, sample_interval, frame_index, frame,
                   detected, reads, det, usedSession, written, result,
                   response, exit>>

\* rotated_frame = cv2.rotate(frame, cv2.ROTATE_90_CLOCKWISE)
Rotate ==
    /\ pc = "rotate"
    /\ pc' = "write"
    /\ UNCHANGED <<canOpen, reportedFps, cap, writer, writerFps, pose,
                   sessions, fps, sample_interval, frame_index,
                   keypoints_samples, frame, detected, reads, det,
                   usedSession, written, result, response, exit>>

WriteFrame_onlyDetected ==
    /\ pc = "write"
    /\ written' = IF detected THEN Append(written, frame) ELSE written
    /\ frame_index' = frame_index + 1
    /\ pc' = "read"
    /\ UNCHANGED <<canOpen, reportedFps, cap, writer, writerFps, pose,
                   sessions, fps, sample_interval, keypoints_samples, frame,
                   detected, reads, det, usedSession, result, response, exit>>

\* writer.write(rotated_frame); frame_index += 1
WriteFrame ==
    /\ pc = "write"
    /\ written' = Append(written, frame)
    /\ frame_index' = frame_index + 1
    /\ pc' = "read"
    /\ UNCHANGED <<canOpen, reportedFps, cap, writer, writerFps, pose,
                   sessions, fps, sample_interval, keypoints_samples, frame,
                   detected, reads, det, usedSession, result, response, exit>>

LoopException_swallowed ==
    /\ pc \in {"cvt", "process", "draw", "rotate", "write"}
    /\ pose' = "closed"
    /\ pc' = "release"
    /\ exit' = "exception"
    /\ UNCHANGED <<canOpen, reportedFps, cap, writer, writerFps, sessions,
                   fps, sample_interval, frame_index, keypoints_samples,
                   frame, detected, reads, det, usedSession, written,
                   result, response>>

\* cvtColor, process, draw_landmarks, rotate or write raises: the with
\* block closes the session and the exception leaves analyze_video
LoopException ==
    /\ pc \in {"cvt", "process", "draw", "rotate", "write"}
    /\ pose' = "closed"
    /\ pc' = "raised"
    /\ exit' = "exception"
    /\ UNCHANGED <<canOpen, reportedFps, cap, writer, writerFps, sessions,
                   fps, sample_interval, frame_index, keypoints_samples,
                   frame, detected, reads, det, usedSession, written,
                   result, response>>

Release_readerOnly ==
    /\ pc = "release"
    /\ cap' = "released"
    /\ pc' = "return"
    /\ UNCHANGED <<canOpen, reportedFps, writer, writerFps, pose, sessions,
                   fps, sample_interval, frame_index, keypoints_samples,
                   frame, detected, reads, det, usedSession, written,
                   result, response, exit>>

\* cap.release(); writer.release()
Release ==
    /\ pc = "release"
    /\ cap' = "released"
    /\ writer' = "released"
    /\ pc' = "return"
    /\ UNCHANGED <<canOpen, reportedFps, writerFps, pose, sessions, fps,
                   sample_interval, frame_index, keypoints_samples, frame,
                   detected, reads, det, usedSession, written, result,
                   response, exit>>

\* return annotated_path.name, keypoints_samples
Return ==
    /\ pc = "return"
    /\ result' = [kind |-> "value", annotated |-> "annotated",
                  keypoints |-> keypoints_samples]
    /\ pc' = "returned"
    /\ UNCHANGED <<canOpen, reportedFps, cap, writer, writerFps, pose,
                   sessions, fps, sample_interval, frame_index,
                   keypoints_samples, frame, detected, reads, det,
                   usedSession, written, response, exit>>

\* return JSONResponse({...})
Respond200 ==
    /\ pc = "returned"
    /\ response' = [kind |-> "response", status |-> 200,
                    body |-> [message |-> SuccessMessage,
                              filename |-> "generated",
                              annotated |-> result.annotated,
                              keypoints |-> result.keypoints]]
    /\ pc' = "done"
    /\ UNCHANGED <<canOpen, reportedFps, cap, writer, writerFps, pose,
                   sessions, fps, sample_interval, frame_index,
                   keypoints_samples, frame, detected, reads, det,
                   usedSession, written, result, exit>>

\* except Exception as exc: raise HTTPException(status_code=500, ...)
Respond500 ==
    /\ pc = "raised"
    /\ response' = [kind |-> "response", status |-> 500,
                    body |-> [detail |-> FailureDetail]]
    /\ pc' = "done"
    /\ UNCHANGED <<canOpen, reportedFps, cap, writer, writerFps, pose,
                   sessions, fps, sample_interval, frame_index,
                   keypoints_samples, frame, detected, reads, det,
                   usedSession, written, result, exit>>

Next ==
    \/ OpenReader
    \/ Setup
    \/ EnterPose
    \/ ReadFrame
    \/ EndOfInput
    \/ CvtColor
    \/ Process
    \/ Draw
    \/ Sample
    \/ Rotate
    \/ WriteFrame
    \/ LoopException
    \/ Release
    \/ Return
    \/ Respond200
    \/ Respond500

Spec == Init /\ [][Next]_vars

(***************************************************************************)
(* Properties                                                              *)
(***************************************************************************)

\* analyze_video has been entered past the setup of lines 37-53
PastSetup == pc \notin {"call", "setup"} /\ exit # "openfail"

\* positions inside the body of the frame loop, a frame in hand
InLoopBody == pc \in {"cvt", "process", "draw", "sample", "rotate", "write"}

Succeeded == response.kind = "response" /\ response.status = 200

Failed == response.kind = "response" /\ response.status = 500

\* frame indices that are sampling slots of interval si and had a detection
DetectedSlots(si) ==
    {i \in 0..(Len(det) - 1) : det[i + 1] /\ i % si = 0}

StrictlyIncreasing(s) ==
    \A i, j \in 1..Len(s) : i < j => s[i] < s[j]

\* C1: the number of captured keypoint samples is at most 3 in every state
\* of the frame loop and in the list analyze_video returns.
C1_AtMostThreeSamples ==
    /\ Len(keypoints_samples) <= 3
    /\ result.kind = "value" => Len(result.keypoints) <= 3

\* a fourth sampling-slot frame with a detection has passed the sampler
C1_Witness ==
    /\ pc = "rotate"
    /\ detected
    /\ frame_index % sample_interval = 0
    /\ Len(keypoints_samples) = 3
    /\ keypoints_samples[3] < frame_index

\* C2: when no frame raises, the frames handed to the writer are exactly
\* the frames the reader delivered, one write per read, in reading order,
\* detected or not.
C2_WritesEveryFrameInOrder ==
    (pc \in {"read", "release", "return", "returned"} \/ Succeeded)
        => written = [i \in 1..reads |-> i - 1]

C2_Witness ==
    /\ Succeeded
    /\ reads >= 3
    /\ \E i, j \in 1..Len(det) : det[i] /\ ~det[j]

\* C3 as stated: samples are captured at multiples of
\* max(round(frame_rate), 1), in strictly increasing frame order, at frames
\* with a detected pose only.
C3_Original ==
    PastSetup =>
        LET si == Max(PyRound(fps), 1)
        IN  /\ sample_interval = si
            /\ \A k \in 1..Len(keypoints_samples) :
                 /\ keypoints_samples[k] % si = 0
                 /\ det[keypoints_samples[k] + 1]
            /\ StrictlyIncreasing(keypoints_samples)

\* C3 amended: samples are captured at multiples of
\* max(int(frame_rate), 1), the rate truncated towards zero, where
\* frame_rate is the reported rate with only a reported 0 replaced by 30.0;
\* in strictly increasing frame order, at frames with a detected pose only.
C3_Amended ==
    PastSetup =>
        LET rate == IF reportedFps = 0 THEN 30000 ELSE reportedFps
            si == Max(PyInt(rate), 1)
        IN  /\ sample_interval = si
            /\ \A k \in 1..Len(keypoints_samples) :
                 /\ keypoints_samples[k] % si = 0
                 /\ det[keypoints_samples[k] + 1]
            /\ StrictlyIncreasing(keypoints_samples)
            /\ (result.kind = "value" => result.keypoints = keypoints_samples)

\* a non-integer rate whose rounding and truncation differ, two samples
\* taken and one sampling slot left empty for want of a detection
C3_Witness ==
    /\ result.kind = "value"
    /\ PyRound(fps) # PyInt(fps)
    /\ Len(result.keypoints) >= 2
    /\ \E i \in 0..(Len(det) - 1) : ~det[i + 1] /\ i % sample_interval = 0

\* C4: on success the returned samples are the first min(3, D) frames that
\* are sampling slots with a detection, D the number of such frames; an
\* empty slot is never filled by a later frame; a video of at most
\* sample_interval frames yields frame 0 if detected and nothing otherwise.
C4_FirstDetectedSlots ==
    result.kind = "value" =>
        LET slots == DetectedSlots(sample_interval)
            n == Min(3, Cardinality(slots))
            ks == result.keypoints
        IN  /\ Len(ks) = n
            /\ \A k \in 1..n :
                 /\ ks[k] \in slots
                 /\ Cardinality({j \in slots : j < ks[k]}) = k - 1
            /\ reads <= sample_interval =>
                 ks = IF reads > 0 /\ det[1] THEN <<0>> ELSE <<>>

\* a slot without detection is followed by a detected non-slot frame and
\* fewer than three samples come back
C4_Witness ==
    /\ result.kind = "value"
    /\ sample_interval = 2
    /\ Len(result.keypoints) = 2
    /\ \E i \in 0..(Len(det) - 2) :
         /\ i % sample_interval = 0
         /\ ~det[i + 1]
         /\ det[i + 2]

\* C5 as stated: once reader and writer are open, no execution leaves
\* analyze_video, by return or by exception, with either still open.
C5_ReleasedOnEveryExit ==
    (pc \in {"returned", "raised", "done"} /\ writer # "none")
        => cap = "released" /\ writer = "released"

C7_OpenFailure ==
    (~canOpen /\ pc # "call") =>
        /\ exit = "openfail"
        /\ cap = "none"
        /\ reads = 0
        /\ sessions = 0
        /\ pose = "none"
        /\ written = <<>>
        /\ writer = "none"
        /\ result = NoValue
        /\ pc \in {"raised", "done"}
        /\ pc = "done" =>
             /\ response.status = 500
             /\ response.body = [detail |-> FailureDetail]

C7_Witness == ~canOpen /\ Failed

\* C8: a video that opens and delivers no frame returns the annotated name
\* and an empty sample list without raising, with nothing written and both
\* reader and writer released.
C8_EmptyVideo ==
    (canOpen /\ reads = 0) =>
        /\ pc # "raised"
        /\ exit # "exception"
        /\ ~Failed
        /\ pc \in {"returned", "done"} =>
             /\ result = [kind |-> "value", annotated |-> "annotated",
                          keypoints |-> <<>>]
             /\ written = <<>>
             /\ cap = "released"
             /\ writer = "released"

C8_Witness == canOpen /\ reads = 0 /\ Succeeded

\* C9 as stated: a reported rate of zero or below is replaced by 30.0 for
\* the writer and gives sample_interval 30; a positive rate is unchanged.
C9_NonPositiveRateDefaults ==
    PastSetup =>
        IF reportedFps <= 0
          THEN writerFps = 30000 /\ sample_interval = 30
          ELSE writerFps = reportedFps

\* C10: one pose session per invocation, constructed before the first
\* read, used for every frame, closed on end of input and on an exception.
C10_OneScopedSession ==
    /\ pc \in {"call", "setup", "enter"} =>
         sessions = 0 /\ pose = "none" /\ reads = 0
    /\ (PastSetup /\ pc # "enter") => sessions = 1
    /\ Len(usedSession) = Len(det)
    /\ \A i \in 1..Len(usedSession) : usedSession[i] = 1
    /\ (pc = "read" \/ InLoopBody) => pose = "open"
    /\ (PastSetup /\ pc \in {"release", "return", "returned", "raised", "done"})
         => pose = "closed"

\* an exception in the third frame, after two frames used the session
C10_Witness ==
    /\ pc = "raised"
    /\ exit = "exception"
    /\ Len(usedSession) >= 2
    /\ pose = "closed"

====
